---- MODULE Spec2Model ----
(***************************************************************************)
(* Model of datasethoster/main.py: the query registry (register_query,     *)
(* fetch_query), the result grouper (convert_results_to_outputs) and the   *)
(* three request handlers (web_query_handler, json_query_handler_get,      *)
(* json_query_handler_post).                                               *)
(*                                                                         *)
(* Python strings that the code takes apart (request.path, the values of   *)
(* the offset/count query parameters) are sequences of one-character       *)
(* strings, so that split("/") and int() are computed, not assumed.        *)
(***************************************************************************)
EXTENDS Integers, Sequences, FiniteSets, TLC

VARIABLES
    registered_queries, \* main.py:25  dict slug -> query
    url_rules,          \* rules installed on dataset_bp by add_url_rule
    setup_calls,        \* per query object: number of query.setup() invocations
    register_calls,     \* per query object: number of register_query(query) calls
    setup_done,         \* per query object: some setup() call has returned
    reg_result,         \* how the last register_query call ended
    registrations,      \* the queries whose register_query call completed, in order
    request,            \* the request being handled (flask.request)
    response,           \* what the handler returned or raised
    bind_calls,         \* input_model calls           made for this request
    fetch_calls,        \* query.fetch invocations made for this request
    results,            \* argument of the last convert_results_to_outputs call
    outputs,            \* its return value
    pc                  \* position of the grouper driver: "input" or "done"

vars == <<registered_queries, url_rules, setup_calls, register_calls, setup_done,
          reg_result, registrations, request, response, bind_calls, fetch_calls, results,
          outputs, pc>>

regVars  == <<registered_queries, url_rules, setup_calls, register_calls,
              setup_done, reg_result, registrations>>
httpVars == <<request, response, bind_calls, fetch_calls>>
grpVars  == <<results, outputs, pc>>

None == "None"

(***************************************************************************)
(* Bounds of the model.                                                    *)
(***************************************************************************)
MaxResults  == 3   \* longest record sequence handed to the grouper
MaxRegister == 2   \* register_query calls explored
MaxBody     == 2   \* longest JSON array in a POST body
MaxFetched  == 1   \* longest record sequence a modelled fetch returns

DEFAULT_QUERY_RESULT_SIZE == 100

Range(s) == {s[i] : i \in 1..Len(s)}

SeqsUpTo(S, n) == UNION {[1..k -> S] : k \in 0..n}

(***************************************************************************)
(* Output records.  A record is an instance of a pydantic model class: the *)
(* class, its ordered field names (__fields__) and a field value.          *)
(* QueryOutputLine is the library's free-text class; LineRow is a tabular  *)
(* class of the hosting application that happens to declare the same field *)
(* name; OutputData/OutputDataRev declare the same two names in a          *)
(* different order; Marker declares no field at all.                       *)
(***************************************************************************)
OutputClasses == {"QueryOutputLine", "LineRow", "OutputData", "OutputDataRev", "Marker"}

ClassFields(cls) ==
    CASE cls = "QueryOutputLine" -> <<"line">>
      [] cls = "LineRow"         -> <<"line">>
      [] cls = "OutputData"      -> <<"duration", "track_name">>
      [] cls = "OutputDataRev"   -> <<"track_name", "duration">>
      [] cls = "Marker"          -> <<>>

OutputRecords ==
    {[cls |-> c, val |-> v] : c \in OutputClasses \ {"Marker"}, v \in {1, 2}}
        \cup {[cls |-> "Marker", val |-> 0]}

\* result.__fields__.keys(): the field names, in declaration order
FieldKeys(result) == ClassFields(result.cls)

\* dict_keys.__eq__: keys views compare as sets, the order is not looked at
KeysEqual(k1, k2) == Range(k1) = Range(k2)

\* bool(dict_keys): a keys view is truthy iff it is not empty
KeysTruthy(k) == Len(k) > 0

\* result.dict(): the plain field -> value mapping; the class is not part of it
Dict(result) == [f \in Range(FieldKeys(result)) |-> result.val]

\* isinstance(result, QueryOutputLine)
IsQueryOutputLine(result) == result.cls = "QueryOutputLine"

Block(keys, data, last_result) ==
    [columns |-> keys, data |-> data, no_table |-> IsQueryOutputLine(last_result)]

(***************************************************************************)
(* convert_results_to_outputs, main.py:93-120.  The loop state is          *)
(* <<outputs, last_result, last_keys, last_output>>.                       *)
(***************************************************************************)
LoopInit(rs) ==
    [outputs |-> <<>>, last_result |-> rs[1], last_keys |-> FieldKeys(rs[1]),
     last_output |-> <<>>]

\* one iteration of "for result in results", main.py:99-111
LoopBody(st, result) ==
    LET current_keys == FieldKeys(result)
        changed == ~KeysEqual(current_keys, st.last_keys)
    IN  [outputs |->
            IF changed
            THEN Append(st.outputs, Block(st.last_keys, st.last_output, st.last_result))
            ELSE st.outputs,
         last_keys   |-> IF changed THEN current_keys ELSE st.last_keys,
         last_output |-> Append(IF changed THEN <<>> ELSE st.last_output, Dict(result)),
         last_result |-> result]

RECURSIVE Loop(_, _, _)
Loop(rs, i, st) ==
    IF i > Len(rs) THEN st ELSE Loop(rs, i + 1, LoopBody(st, rs[i]))

\* "if last_result and last_keys and last_output", main.py:113-118.
\* A pydantic model instance is always truthy.
FinalAppend(st) ==
    IF KeysTruthy(st.last_keys) /\ Len(st.last_output) > 0
    THEN Append(st.outputs, Block(st.last_keys, st.last_output, st.last_result))
    ELSE st.outputs

convert_results_to_outputs(rs) ==
    IF Len(rs) = 0 THEN <<>> ELSE FinalAppend(Loop(rs, 1, LoopInit(rs)))

(***************************************************************************)
(* The grouper on its own: every record sequence up to MaxResults.         *)
(***************************************************************************)
Convert ==
    /\ pc = "input"
    /\ outputs' = convert_results_to_outputs(results)
    /\ pc' = "done"
    /\ UNCHANGED <<results, regVars, httpVars>>

EmptyObject == [k \in {} |-> None]

Request(handler, path, args, json) ==
    [handler |-> handler, path |-> path, args |-> args, json |-> json]

Response(status, kind, error, body) ==
    [status |-> status, kind |-> kind, error |-> error, body |-> body]

\* no request is being handled
NoRequest == Request(None, <<>>, EmptyObject, <<>>)
NoResponse == Response(0, None, "", <<>>)

Idle == request = NoRequest

(***************************************************************************)
(* Strings as character sequences.                                         *)
(***************************************************************************)
Min(S) == CHOOSE x \in S : \A y \in S : x <= y

\* s[1:]
DropFirst(s) == SubSeq(s, 2, Len(s))

\* s.split("/")[0]
FirstPart(s) ==
    LET cut == {i \in 1..Len(s) : s[i] = "/"}
    IN  IF cut = {} THEN s ELSE SubSeq(s, 1, Min(cut) - 1)

Digits == {"0", "1", "2", "3", "4", "5", "6", "7", "8", "9"}

DigitVal(c) ==
    CASE c = "0" -> 0 [] c = "1" -> 1 [] c = "2" -> 2 [] c = "3" -> 3 [] c = "4" -> 4
      [] c = "5" -> 5 [] c = "6" -> 6 [] c = "7" -> 7 [] c = "8" -> 8 [] c = "9" -> 9

RECURSIVE DecimalVal(_)
DecimalVal(ds) ==
    IF Len(ds) = 0 THEN 0
    ELSE 10 * DecimalVal(SubSeq(ds, 1, Len(ds) - 1)) + DigitVal(ds[Len(ds)])

\* int(s) for a str: an optional sign and at least one decimal digit give
\* [ok |-> TRUE, val |-> n]; anything else raises ValueError, [ok |-> FALSE]
ParseInt(s) ==
    LET signed == Len(s) > 0 /\ s[1] \in {"-", "+"}
        ds     == IF signed THEN DropFirst(s) ELSE s
    IN  IF Len(ds) = 0 \/ ~(Range(ds) \subseteq Digits) THEN [ok |-> FALSE, val |-> 0]
        ELSE [ok |-> TRUE,
              val |-> IF signed /\ s[1] = "-" THEN 0 - DecimalVal(ds) ELSE DecimalVal(ds)]

(***************************************************************************)
(* Queries of the hosting application.  names() gives each its slug; q1    *)
(* and q2 declare the same slug, q3 a slug that has q1's as a prefix.      *)
(***************************************************************************)
Queries == {"q1", "q2", "q3"}

\* query.names()[0]
QuerySlug(q) ==
    CASE q = "q1" -> <<"a">>
      [] q = "q2" -> <<"a">>
      [] q = "q3" -> <<"a", "b">>

JsonSuffix == <<"/", "j", "s", "o", "n">>

\* '/%s' % slug and '/%s/json' % slug
PagePath(slug) == <<"/">> \o slug
JsonPath(slug) == <<"/">> \o slug \o JsonSuffix

\* a registry that keeps the first query registered under a slug
DictSet_KeepFirst(d, k, v) ==
    [x \in DOMAIN d \cup {k} |-> IF x \in DOMAIN d THEN d[x] ELSE v]

\* registered_queries[slug] = query
DictSet(d, k, v) == [x \in DOMAIN d \cup {k} |-> IF x = k THEN v ELSE d[x]]

RulesFor(slug) ==
    {[rule |-> PagePath(slug), endpoint |-> slug, view |-> "web_query_handler"],
     [rule |-> JsonPath(slug), endpoint |-> slug \o <<"_", "j", "s", "o", "n">>,
      view |-> "json_query_handler"]}

(***************************************************************************)
(* register_query, main.py:54-64.  setup() is the query's own code and may *)
(* raise; the exception leaves register_query at line 60.                  *)
(***************************************************************************)
\* a register_query that inserts the query and its routes before setup() has run
RegisterEffect_InsertFirst(q, setup_ok) ==
    [setup_calls |-> [setup_calls EXCEPT ![q] = @ + 1],
     setup_done  |-> [setup_done EXCEPT ![q] = @ \/ setup_ok],
     registered_queries |-> DictSet(registered_queries, QuerySlug(q), q),
     url_rules |-> url_rules \cup RulesFor(QuerySlug(q)),
     reg_result |-> IF setup_ok THEN "registered" ELSE "setup_raised"]

RegisterEffect(q, setup_ok) ==
    [setup_calls |-> [setup_calls EXCEPT ![q] = @ + 1],
     setup_done  |-> [setup_done EXCEPT ![q] = @ \/ setup_ok],
     registered_queries |->
        IF setup_ok THEN DictSet(registered_queries, QuerySlug(q), q)
        ELSE registered_queries,
     url_rules |->
        IF setup_ok THEN url_rules \cup RulesFor(QuerySlug(q)) ELSE url_rules,
     reg_result |-> IF setup_ok THEN "registered" ELSE "setup_raised"]

RegisterCount == register_calls["q1"] + register_calls["q2"] + register_calls["q3"]

register_query(q, setup_ok) ==
    /\ Idle
    /\ RegisterCount < MaxRegister
    /\ LET e == RegisterEffect(q, setup_ok)
       IN  /\ setup_calls' = e.setup_calls
           /\ setup_done' = e.setup_done
           /\ registered_queries' = e.registered_queries
           /\ url_rules' = e.url_rules
           /\ reg_result' = e.reg_result
    /\ register_calls' = [register_calls EXCEPT ![q] = @ + 1]
    /\ registrations' = IF setup_ok THEN Append(registrations, q) ELSE registrations
    /\ UNCHANGED <<httpVars, grpVars>>

Register == \E q \in Queries, setup_ok \in BOOLEAN : register_query(q, setup_ok)

NotHosted == "Requested query not hosted on this site."

\* fetch_query, main.py:78-90: (query, error)
fetch_query(url) ==
    LET slug == FirstPart(DropFirst(url))
    IN  IF slug \in DOMAIN registered_queries
        THEN [query |-> registered_queries[slug], error |-> ""]
        ELSE [query |-> None, error |-> NotHosted]

(***************************************************************************)
(* Requests.  request.args maps the parameter names that are present to    *)
(* their string values; request.json is a sequence of raw mappings.        *)
(***************************************************************************)
\* marks a parameter the request does not carry (no parameter value has this form)
Absent == <<"Absent">>

OffsetValues == {Absent, <<"0">>, <<"-", "1">>, <<"x">>}
CountValues  == {Absent, <<"5">>}
NumberValues == {Absent, <<"3">>, <<"x">>}

MkArgs(o, c, n, l) ==
    LET given == [offset |-> o, count |-> c, number |-> n, num_lines |-> l]
    IN  [k \in {k \in DOMAIN given : given[k] # Absent} |-> given[k]]

\* the input fields a query string carries: none, both, a malformed number,
\* no number
FieldArgs ==
    {<<Absent, Absent>>, <<<<"3">>, <<"2">>>>, <<<<"x">>, <<"2">>>>, <<Absent, <<"2">>>>}

ArgSets ==
    {MkArgs(o, c, f[1], f[2]) : o \in OffsetValues, c \in CountValues, f \in FieldArgs}

\* the raw mappings a JSON body is made of
RawItems ==
    {MkArgs(Absent, Absent, n, <<"2">>) : n \in NumberValues}

RequestSlugs == {<<"a">>, <<"a", "b">>, <<"c">>}

\* request.args.get(key, default)
ArgsGet(args, key, default) == IF key \in DOMAIN args THEN args[key] ELSE default

\* str(n) for n >= 0
RECURSIVE Str(_)
Str(n) ==
    LET d == CHOOSE c \in Digits : DigitVal(c) = n % 10
    IN  IF n < 10 THEN <<d>> ELSE Str(n \div 10) \o <<d>>

(***************************************************************************)
(* The input model of the hosted query (example.py:12-14): two required    *)
(* int fields.  Constructing it from a raw mapping coerces each with int() *)
(* and ignores names the model does not declare.                           *)
(***************************************************************************)
InputFields == {"number", "num_lines"}

ValidationError == [ok |-> FALSE, val |-> [f \in InputFields |-> 0]]

input_model(raw) ==
    IF \A f \in InputFields : f \in DOMAIN raw /\ ParseInt(raw[f]).ok
    THEN [ok |-> TRUE, val |-> [f \in InputFields |-> ParseInt(raw[f]).val]]
    ELSE ValidationError

(***************************************************************************)
(* query.fetch is the query's own code: it returns records or raises; on   *)
(* any path it may raise RedirectError, a subclass of Exception.  The web  *)
(* and GET handlers pass no offset/count: fetch sees its defaults, -1      *)
(* (example.py:51).                                                        *)
(***************************************************************************)
FetchedRecords ==
    {[cls |-> "QueryOutputLine", val |-> 1], [cls |-> "OutputData", val |-> 1]}

ExceptionObjects == {[exc |-> "Exception"], [exc |-> "RedirectError"]}

FetchOutcomes ==
    {[kind |-> "ok", data |-> rs, err |-> None] : rs \in SeqsUpTo(FetchedRecords, MaxFetched)}
        \cup {[kind |-> "raise", data |-> <<>>, err |-> e] : e \in ExceptionObjects}

\* one query.fetch invocation: its arguments and how it ended
FetchCall(inputs, source, offset, count, fo) ==
    [inputs |-> inputs, source |-> source, offset |-> offset, count |-> count,
     outcome |-> fo.kind]

\* QueryOutputWrapperModel(__root__=data).json(): the records as plain mappings
WrapJson(data) == [i \in 1..Len(data) |-> Dict(data[i])]

\* an exception nothing in main.py catches: the framework answers 500
Unhandled(exc) == Response(500, "InternalServerError", exc, <<>>)

\* raise BadRequest(msg)
BadRequest(msg) == Response(400, "BadRequest", msg, <<>>)

Unsupported == "offset and count arguments are only supported for the POST method"

Handled(resp, binds, fetches, converted) ==
    [response |-> resp, bind_calls |-> binds, fetch_calls |-> fetches,
     converted |-> converted]

\* main.py:132-134 and 199-201: present pagination parameters are recognised
\* by comparing their int() value with the default -1
PaginationGiven(offset, count) == offset >= 0 \/ count >= 0

(***************************************************************************)
(* web_query_handler, main.py:123-170.  render_template(...) without a     *)
(* status is a 200 response.                                               *)
(***************************************************************************)
web_query_handler(req, fo) ==
    LET fq     == fetch_query(req.path)
        offset == ParseInt(ArgsGet(req.args, "offset", <<"-", "1">>))
        count  == ParseInt(ArgsGet(req.args, "count", <<"-", "1">>))
        bound  == input_model(req.args)
        call   == FetchCall(<<bound.val>>, "web", -1, -1, fo)
    IN  IF fq.error # ""
        THEN Handled(Response(200, "error.html", fq.error, <<>>), 0, <<>>, FALSE)
        ELSE IF ~offset.ok \/ ~count.ok
        THEN Handled(Unhandled("ValueError"), 0, <<>>, FALSE)
        ELSE IF PaginationGiven(offset.val, count.val)
        THEN Handled(Response(200, "error.html", Unsupported, <<>>), 0, <<>>, FALSE)
        ELSE IF DOMAIN req.args = {}
        THEN Handled(Response(200, "query.html", "", <<>>), 0, <<>>, FALSE)
        ELSE IF ~bound.ok
        THEN Handled(Response(200, "error.html", "traceback", <<>>), 1, <<>>, FALSE)
        ELSE IF fo.kind = "raise" /\ fo.err.exc = "RedirectError"
        THEN Handled(Response(302, "redirect", "", <<>>), 1, <<call>>, FALSE)
        ELSE IF fo.kind = "raise"
        THEN Handled(Response(200, "error.html", "traceback", <<>>), 1, <<call>>, FALSE)
        ELSE Handled(Response(200, "query.html", "",
                              convert_results_to_outputs(fo.data)),
                     1, <<call>>, TRUE)

(***************************************************************************)
(* jsonify(obj): flask serialises str, numbers, lists and mappings of      *)
(* them; for an exception object its encoder raises TypeError.             *)
(***************************************************************************)
JsonSerializable(obj) == \A k \in DOMAIN obj : obj[k] \notin ExceptionObjects

jsonify(obj, status) ==
    IF JsonSerializable(obj)
    THEN Response(status, "json", "", obj)
    ELSE Unhandled("TypeError")

(***************************************************************************)
(* json_query_handler_get, main.py:188-219.                                *)
(***************************************************************************)
json_query_handler_get(req, fo) ==
    LET fq     == fetch_query(req.path)
        offset == ParseInt(ArgsGet(req.args, "offset", <<"-", "1">>))
        count  == ParseInt(ArgsGet(req.args, "count", <<"-", "1">>))
        bound  == input_model(req.args)
        call   == FetchCall(<<bound.val>>, "json_get", -1, -1, fo)
    IN  IF fq.error # ""
        THEN Handled(BadRequest(fq.error), 0, <<>>, FALSE)
        ELSE IF ~offset.ok \/ ~count.ok
        THEN Handled(Unhandled("ValueError"), 0, <<>>, FALSE)
        ELSE IF PaginationGiven(offset.val, count.val)
        THEN Handled(BadRequest(Unsupported), 0, <<>>, FALSE)
        ELSE IF ~bound.ok
        THEN Handled(BadRequest("ValidationError"), 1, <<>>, FALSE)
        ELSE IF fo.kind = "raise"
        THEN Handled(jsonify(EmptyObject, 500), 1, <<call>>, FALSE)
        ELSE Handled(Response(200, "json", "", WrapJson(fo.data)), 1, <<call>>, FALSE)

\* a binder that drops the items that fail and keeps the rest
BindAll_SkipInvalid(body) ==
    LET good == {i \in 1..Len(body) : input_model(body[i]).ok}
        Pick[n \in 0..Len(body)] ==
            IF n = 0 THEN <<>>
            ELSE IF n \in good THEN Append(Pick[n - 1], input_model(body[n]).val)
            ELSE Pick[n - 1]
    IN  [ok |-> TRUE, inputs |-> Pick[Len(body)], calls |-> Len(body)]

\* main.py:233-238: bind the body's items in order, stop at the first that fails
BindAll(body) ==
    LET bad   == {i \in 1..Len(body) : ~input_model(body[i]).ok}
        calls == IF bad = {} THEN Len(body) ELSE Min(bad)
    IN  [ok     |-> bad = {},
         inputs |-> [i \in 1..(IF bad = {} THEN Len(body) ELSE Min(bad) - 1)
                        |-> input_model(body[i]).val],
         calls  |-> calls]

\* main.py:240-241
PostOffset(args) == ParseInt(ArgsGet(args, "offset", <<"0">>))
PostCount(args)  == ParseInt(ArgsGet(args, "count", Str(DEFAULT_QUERY_RESULT_SIZE)))

(***************************************************************************)
(* json_query_handler_post, main.py:222-251.                               *)
(***************************************************************************)
json_query_handler_post(req, fo) ==
    LET fq     == fetch_query(req.path)
        b      == BindAll(req.json)
        offset == PostOffset(req.args)
        count  == PostCount(req.args)
        call   == FetchCall(b.inputs, "json_post", offset.val, count.val, fo)
    IN  IF fq.error # ""
        THEN Handled(BadRequest(fq.error), 0, <<>>, FALSE)
        ELSE IF ~b.ok
        THEN Handled(BadRequest("ValidationError"), b.calls, <<>>, FALSE)
        ELSE IF ~offset.ok \/ ~count.ok
        THEN Handled(Unhandled("ValueError"), b.calls, <<>>, FALSE)
        ELSE IF fo.kind = "raise"
        THEN Handled(jsonify([error |-> fo.err], 400), b.calls, <<call>>, FALSE)
        ELSE Handled(Response(200, "json", "", WrapJson(fo.data)), b.calls, <<call>>,
                     FALSE)

(***************************************************************************)
(* Requests reach a view once a rule naming it is installed.  Matching a   *)
(* path to a rule is the framework's work; the view reads request.path     *)
(* itself and looks the slug up again (fetch_query), so the path is an     *)
(* input of the view.                                                      *)
(***************************************************************************)
Installed(view) == \E r \in url_rules : r.view = view

Serve(req, h, fo) ==
    /\ request' = req
    /\ response' = h.response
    /\ bind_calls' = h.bind_calls
    /\ fetch_calls' = h.fetch_calls
    /\ results' = IF h.converted THEN fo.data ELSE results
    /\ outputs' = IF h.converted THEN h.response.body ELSE outputs
    /\ UNCHANGED <<pc, regVars>>

WebQueryHandler ==
    /\ Idle
    /\ Installed("web_query_handler")
    /\ \E slug \in RequestSlugs, args \in ArgSets, fo \in FetchOutcomes :
          LET req == Request("web_query_handler", PagePath(slug), args, <<>>)
          IN  Serve(req, web_query_handler(req, fo), fo)

JsonQueryHandlerGet ==
    /\ Idle
    /\ Installed("json_query_handler")
    /\ \E slug \in RequestSlugs, args \in ArgSets, fo \in FetchOutcomes :
          LET req == Request("json_query_handler_get", JsonPath(slug), args, <<>>)
          IN  Serve(req, json_query_handler_get(req, fo), fo)

JsonQueryHandlerPost ==
    /\ Idle
    /\ Installed("json_query_handler")
    /\ \E slug \in RequestSlugs, o \in OffsetValues, c \in CountValues,
          body \in SeqsUpTo(RawItems, MaxBody), fo \in FetchOutcomes :
          LET req == Request("json_query_handler_post", JsonPath(slug),
                             MkArgs(o, c, Absent, Absent), body)
          IN  Serve(req, json_query_handler_post(req, fo), fo)

\* the handler has returned (or raised) and the request context is torn down:
\* requests share nothing but the registry
Responded ==
    /\ ~Idle
    /\ request' = NoRequest
    /\ response' = NoResponse
    /\ bind_calls' = 0
    /\ fetch_calls' = <<>>
    /\ results' = <<>>
    /\ outputs' = <<>>
    /\ UNCHANGED <<pc, regVars>>

RegInit ==
    /\ registered_queries = EmptyObject
    /\ url_rules = {}
    /\ setup_calls = [q \in Queries |-> 0]
    /\ register_calls = [q \in Queries |-> 0]
    /\ setup_done = [q \in Queries |-> FALSE]
    /\ reg_result = None
    /\ registrations = <<>>

HttpInit ==
    /\ request = NoRequest
    /\ response = NoResponse
    /\ bind_calls = 0
    /\ fetch_calls = <<>>

Init ==
    /\ RegInit
    /\ HttpInit
    /\ results = <<>>
    /\ outputs = <<>>
    /\ pc = "done"

Next ==
    \/ Register
    \/ WebQueryHandler
    \/ JsonQueryHandlerGet
    \/ JsonQueryHandlerPost
    \/ Responded

Spec == Init /\ [][Next]_vars

GrouperInit ==
    /\ RegInit
    /\ HttpInit
    /\ results \in SeqsUpTo(OutputRecords, MaxResults)
    /\ outputs = <<>>
    /\ pc = "input"

GrouperNext == Convert

SpecGrouper == GrouperInit /\ [][GrouperNext]_vars

(***************************************************************************)
(* Properties of the grouper (checked under SpecGrouper).                  *)
(***************************************************************************)
RECURSIVE ConcatData(_)
ConcatData(blocks) ==
    IF Len(blocks) = 0 THEN <<>>
    ELSE ConcatData(SubSeq(blocks, 1, Len(blocks) - 1)) \o blocks[Len(blocks)].data

InputDicts == [i \in 1..Len(results) |-> Dict(results[i])]

FieldSet(result) == Range(FieldKeys(result))

\* number of maximal runs of equal field-name sets in the input
NumRuns(rs) ==
    IF Len(rs) = 0 THEN 0
    ELSE 1 + Cardinality({i \in 2..Len(rs) : FieldSet(rs[i]) # FieldSet(rs[i - 1])})

\* index in the input of the record before the first record of block k
BlockStart(k) == Len(ConcatData(SubSeq(outputs, 1, k - 1)))

\* C1: concatenating the 'data' lists of the returned blocks, in block order,
\* reproduces the input sequence exactly (same length, records and order),
\* also for records whose schema has no field.
C1_ConcatReproducesInput ==
    pc = "done" => ConcatData(outputs) = InputDicts

\* no block is empty, every record of a block has the block's columns as its
\* field-name set, and adjacent blocks differ in their field-name sets
RunShape ==
    /\ \A k \in 1..Len(outputs) :
          /\ Len(outputs[k].data) > 0
          /\ \A j \in 1..Len(outputs[k].data) :
                DOMAIN outputs[k].data[j] = Range(outputs[k].columns)
    /\ \A k \in 2..Len(outputs) :
          Range(outputs[k].columns) # Range(outputs[k - 1].columns)

\* C2: the returned blocks are exactly the maximal runs of the input: one block
\* per maximal run of equal field-name sets, each block non-empty and uniform
\* with its columns, adjacent blocks different, and no block for an empty input.
C2_BlocksAreMaximalRuns ==
    pc = "done" => RunShape /\ Len(outputs) = NumRuns(results)

\* C10: a block's no_table flag is true iff the records of its run are
\* QueryOutputLine records, whichever record of the run is inspected.
C10_FlagIffFreeText ==
    pc = "done" =>
        \A k \in 1..Len(outputs) : \A j \in 1..Len(outputs[k].data) :
            BlockStart(k) + j <= Len(results)
                => (outputs[k].no_table <=> IsQueryOutputLine(results[BlockStart(k) + j]))

(***************************************************************************)
(* Properties of the registry and the handlers (checked under Spec).       *)
(* While a request is being handled the registry does not change, so       *)
(* fetch_query(request.path) is what the handler saw.                      *)
(***************************************************************************)
OnWeb  == request.handler = "web_query_handler"
OnGet  == request.handler = "json_query_handler_get"
OnPost == request.handler = "json_query_handler_post"

SlugRegistered == fetch_query(request.path).error = ""

PaginationPresent == "offset" \in DOMAIN request.args \/ "count" \in DOMAIN request.args

\* C3: on the interactive and the machine GET path, a request for a registered
\* slug that carries an offset or count parameter, whatever its value, is
\* rejected as unsupported, and neither binding nor fetch is performed.
C3_PaginationRejected ==
    (OnWeb \/ OnGet) /\ SlugRegistered /\ PaginationPresent
        => /\ response.error = Unsupported
           /\ bind_calls = 0
           /\ fetch_calls = <<>>

BodyInvalid == \E i \in 1..Len(request.json) : ~input_model(request.json[i]).ok

\* C4: POST binding is all-or-nothing: a body with an element that fails
\* validation ends in a bad request without any fetch, and a fetch that is made
\* receives exactly one bound record per body element, in body order.
C4_BatchAllOrNothing ==
    OnPost =>
        /\ BodyInvalid =>
              /\ response.status = 400
              /\ response.kind = "BadRequest"
              /\ fetch_calls = <<>>
        /\ \A c \in 1..Len(fetch_calls) :
              /\ Len(fetch_calls[c].inputs) = Len(request.json)
              /\ \A i \in 1..Len(request.json) :
                    /\ input_model(request.json[i]).ok
                    /\ fetch_calls[c].inputs[i] = input_model(request.json[i]).val

\* a two-element body whose second element is invalid was refused after both
\* elements were tried
C4_Witness ==
    /\ OnPost
    /\ SlugRegistered
    /\ Len(request.json) = 2
    /\ input_model(request.json[1]).ok
    /\ ~input_model(request.json[2]).ok
    /\ bind_calls = 2
    /\ response.status = 400

FetchFailed == Len(fetch_calls) > 0 /\ fetch_calls[1].outcome = "raise"

\* C5: when fetch raises on a machine path, the request ends once with an
\* opaque failure: GET answers an empty JSON object with status 500, POST a
\* JSON error object with status 400; fetch is called once, no records go out.
C5_FetchFailureResponses ==
    (OnGet \/ OnPost) /\ FetchFailed =>
        /\ Len(fetch_calls) = 1
        /\ response.kind = "json"
        /\ OnGet => response.status = 500 /\ response.body = EmptyObject
        /\ OnPost => response.status = 400 /\ DOMAIN response.body = {"error"}

\* C6: a request whose slug is not in the registry ends in NotFound with
\* status 404 on the interactive and the machine paths, without any fetch.
C6_UnknownSlugIs404 ==
    ~Idle /\ ~SlugRegistered =>
        /\ response.status = 404
        /\ fetch_calls = <<>>

Max(S) == CHOOSE x \in S : \A y \in S : x >= y

LookupSlugs == RequestSlugs \cup {<<"b">>, <<>>}

RegisteredAt(slug) == {i \in 1..Len(registrations) : QuerySlug(registrations[i]) = slug}

\* C7: fetch_query on a path whose first segment is slug s returns the query
\* most recently registered under s, one registry entry per slug, and no query
\* with a not-found error for a slug never registered.
C7_LookupReturnsLatest ==
    /\ \A slug \in LookupSlugs : \A path \in {PagePath(slug), JsonPath(slug)} :
          IF RegisteredAt(slug) = {}
          THEN fetch_query(path).query = None /\ fetch_query(path).error # ""
          ELSE /\ fetch_query(path).query = registrations[Max(RegisteredAt(slug))]
               /\ fetch_query(path).error = ""
    /\ DOMAIN registered_queries = {QuerySlug(q) : q \in Range(registrations)}

\* q2 was registered over q1 under the same slug and is the one looked up
C7_Witness ==
    /\ registrations = <<"q1", "q2">>
    /\ fetch_query(PagePath(<<"a">>)).query = "q2"

SetupBeforeInsert ==
    /\ \A slug \in DOMAIN registered_queries : setup_done[registered_queries[slug]]
    /\ \A q \in Queries : setup_calls[q] = register_calls[q]

FailedSetupChangesNothing ==
    (register_calls' # register_calls /\ reg_result' = "setup_raised")
        => registered_queries' = registered_queries /\ url_rules' = url_rules

\* C8: register_query invokes setup() once per call and before the insertion:
\* every query in the registry has completed setup, and a setup() that fails
\* leaves the registry and the route table unchanged.
C8_SetupOnceBeforeInsert ==
    []SetupBeforeInsert /\ [][FailedSetupChangesNothing]_vars

\* a setup() failed while the registry already held a query
C8_Witness ==
    /\ reg_result = "setup_raised"
    /\ DOMAIN registered_queries # {}
    /\ \E q \in Queries : setup_calls[q] = 1 /\ ~setup_done[q]

\* C9: on the POST path every fetch receives a valid pagination window:
\* offset and count are non-negative for every combination of offset/count
\* parameters, absent parameters giving offset 0 and count 100.
C9_PaginationWindowValid ==
    OnPost =>
        \A c \in 1..Len(fetch_calls) :
            /\ fetch_calls[c].offset >= 0
            /\ fetch_calls[c].count >= 0
            /\ "offset" \notin DOMAIN request.args => fetch_calls[c].offset = 0
            /\ "count" \notin DOMAIN request.args
                  => fetch_calls[c].count = DEFAULT_QUERY_RESULT_SIZE

====
